---- MODULE Spec2Model ----
(***************************************************************************)
(* LocationController (Shared/LocationController.cpp): the position and    *)
(* heading source that arbitrates between a Live producer                  *)
(* (QGeoPositionInfoSource + QCompass) and a Simulated producer            *)
(* (GPXLocationSimulator), and derives a relative heading from the scene   *)
(* view's camera heading.                                                  *)
(*                                                                         *)
(* Headings are doubles in the code.  They are modelled as integers in     *)
(* units of 0.05 degree, so that 0.1 degree is 2 units and a change below  *)
(* the threshold that is not zero (1 unit) exists.                         *)
(***************************************************************************)
EXTENDS Integers, Sequences, FiniteSets, TLC

\* ---------------------------------------------------------------- bounds
\* Headings 0..MaxJitter (units of 0.05 degree) are the small headings used
\* to exercise the 0.1 degree threshold.
MaxJitter == 2
\* Longitudes of fixes and waypoints range over 0..MaxCoord.
MaxCoord == 1

\* The publisher's clock runs from 0 to MaxTime seconds.
MaxTime == 5

\* ------------------------------------------------------------- constants
\* std::abs(m_lastViewHeading - sceneViewHeading) < 0.1 : 0.1 degree in units
\* of 0.05 degree.
Threshold == 2

UnitsPerDegree == Threshold * 10
FullCircle == 360 * UnitsPerDegree

\* Absolute and viewer headings the environment can deliver, all in [0, 360).
Headings == (0..MaxJitter) \cup {FullCircle - 1}

\* Longitudes, and one latitude and one altitude that differ from all of them.
Coords == 0..MaxCoord
Latitudes == {MaxCoord + 1}
Altitudes == {MaxCoord + 2}

\* QUrl values: the empty QUrl a default-constructed m_gpxFilePath holds, the
\* packaged DsaUtility::dataPath() + "/MontereyMounted.gpx", and a user file.
EmptyUrl == "empty"
DefaultGpx == "file:MontereyMounted.gpx"
UserGpx == "file:user.gpx"
Urls == {EmptyUrl, DefaultGpx, UserGpx}

\* QUrl::toLocalFile: the path of a local-file URL, the empty string for an
\* empty URL.
ToLocalFile(url) ==
  CASE url = DefaultGpx -> "/data/MontereyMounted.gpx"
    [] url = UserGpx -> "/user.gpx"
    [] OTHER -> ""

\* QGeoCoordinate::CoordinateType
CoordinateTypes == {"InvalidCoordinate", "Coordinate2D", "Coordinate3D"}

\* What the positionUpdated handler reads of a QGeoPositionInfo.  The three
\* tests of the handler are kept independent of each other.
Fixes ==
  [isValid : BOOLEAN, coordIsValid : BOOLEAN, type : CoordinateTypes,
   longitude : Coords, latitude : Latitudes, altitude : Altitudes]

\* Esri::ArcGISRuntime::Point in wgs84: x, y and an optional z.
Point2D(x, y) == [x |-> x, y |-> y, hasZ |-> FALSE, z |-> 0]
Point3D(x, y, z) == [x |-> x, y |-> y, hasZ |-> TRUE, z |-> z]

\* Positions the track-log player replays (2-D waypoints).
SimPoints == {Point2D(x, y) : x \in Coords, y \in Latitudes}

\* QCompass::reading() is a null pointer or a reading with an azimuth.
NoReading == -1
Readings == Headings \cup {NoReading}

Abs(x) == IF x < 0 THEN -x ELSE x

VARIABLES
  m_enabled,           \* bool m_enabled
  m_simulated,         \* bool m_simulated
  m_simulator,         \* GPXLocationSimulator* m_simulator is not null
  m_positionSource,    \* QGeoPositionInfoSource* m_positionSource is not null
  m_compass,           \* QCompass* m_compass is not null
  simStarted,          \* m_simulator->startUpdates() is in effect
  posStarted,          \* m_positionSource->startUpdates() is in effect
  compassStarted,      \* m_compass->start() is in effect
  m_gpxFilePath,       \* QUrl m_gpxFilePath
  simGpxFile,          \* the file last given to m_simulator->setGpxFile
  m_lastKnownHeading,  \* double m_lastKnownHeading
  m_lastViewHeading,   \* double m_lastViewHeading
  sceneViewConnected,  \* viewpointChanged of a scene view is connected
  cameraHeading,       \* sceneView->currentViewpointCamera().heading()
  simConnections,      \* connections of positionUpdateAvailable to its handler
  posConnections,      \* connections of positionUpdated to its handler
  ub,                  \* "none", or the outcome of a use of a null pointer
  platformSource,      \* QGeoPositionInfoSource::createDefaultSource yields one
  defaultAvailable,    \* the packaged MontereyMounted.gpx can be read
  argIn,               \* the argument of the operation that ran last
  fixIn,               \* the QGeoPositionInfo handed to the last handler
  posOut,              \* positionChanged values emitted by the last handler
  headingOut,          \* headingChanged values emitted by the last handler
  relOut,              \* relativeHeadingChanged values emitted by it
  notifyOut,           \* enabledChanged/simulatedChanged/gpxFilePathChanged
  lastOp,              \* the operation or handler that ran last
  \* LocationBroadcast (Shared/LocationBroadcast.h)
  lb_enabled,          \* bool m_enabled
  lb_location,         \* Point m_location: <<>> while empty, else <<point>>
  lb_useCurrentLocation, \* bool m_useCurrentLocation
  lb_messageType,      \* QString m_messageType
  lb_udpPort,          \* int m_udpPort
  lb_frequency,        \* int m_frequency, in milliseconds
  lb_timerActive,      \* m_timer is running
  sourcePosition,      \* the source's last known position, <<>> before any
  now,                 \* the time in milliseconds
  nextTick,            \* when the running timer fires next
  startTime,           \* when the timer was started last
  sentSinceStart,      \* messages sent since then
  skippedSinceStart,   \* ticks since then that had no position to send
  sent,                \* the messages the last step handed to the transport
  lb_lastOp            \* the publisher operation or handler that ran last

progVars ==
  <<m_enabled, m_simulated, m_simulator, m_positionSource, m_compass,
    simStarted, posStarted, compassStarted, m_gpxFilePath, simGpxFile,
    m_lastKnownHeading, m_lastViewHeading>>

\* The handler connections and the outcome of undefined behaviour.
wiringVars == <<simConnections, posConnections, ub>>

\* What the platform and the installation provide; no operation changes it.
envVars == <<platformSource, defaultAvailable>>

vars ==
  <<m_enabled, m_simulated, m_simulator, m_positionSource, m_compass,
    simStarted, posStarted, compassStarted, m_gpxFilePath, simGpxFile,
    m_lastKnownHeading, m_lastViewHeading, sceneViewConnected, cameraHeading,
    simConnections, posConnections, ub, platformSource, defaultAvailable,
    argIn, fixIn, posOut, headingOut, relOut, notifyOut, lastOp,
    lb_enabled, lb_location, lb_useCurrentLocation, lb_messageType,
    lb_udpPort, lb_frequency, lb_timerActive, sourcePosition,
    now, nextTick, startTime, sentSinceStart, skippedSinceStart, sent,
    lb_lastOp>>

\* The variables of the controller, and those of the publisher and its clock.
controllerVars ==
  <<m_enabled, m_simulated, m_simulator, m_positionSource, m_compass,
    simStarted, posStarted, compassStarted, m_gpxFilePath, simGpxFile,
    m_lastKnownHeading, m_lastViewHeading, sceneViewConnected, cameraHeading,
    simConnections, posConnections, ub, platformSource, defaultAvailable,
    argIn, fixIn, posOut, headingOut, relOut, notifyOut, lastOp>>

broadcastVars ==
  <<lb_enabled, lb_location, lb_useCurrentLocation, lb_messageType,
    lb_udpPort, lb_frequency, lb_timerActive, sourcePosition,
    now, nextTick, startTime, sentSinceStart, skippedSinceStart, sent,
    lb_lastOp>>

\* int m_frequency = 3000
DefaultFrequency == 3000
\* int m_udpPort = -1
DefaultUdpPort == -1
\* another port the publisher can be set to
OtherUdpPort == DefaultUdpPort + 2

\* One second, in the milliseconds of m_frequency.
Second == DefaultFrequency \div 3
\* the intervals setFrequency is called with
Frequencies == {Second, DefaultFrequency}
\* the ports setUdpPort is called with
UdpPorts == {DefaultUdpPort, OtherUdpPort}
\* the tags setMessageType is called with
MessageTypes == {"", "position_report"}
\* the positions setLocation is called with and the source reports
BroadcastPoints == {Point2D(x, 1) : x \in 0..1}

\* LocationBroadcast::LocationBroadcast: the members have the defaults of the
\* class declaration; the timer runs when the publisher is enabled.
InitBroadcast ==
  /\ lb_enabled = TRUE
  /\ lb_location = <<>>
  /\ lb_useCurrentLocation = TRUE
  /\ lb_messageType = ""
  /\ lb_udpPort = DefaultUdpPort
  /\ lb_frequency = DefaultFrequency
  /\ lb_timerActive = lb_enabled
  /\ sourcePosition = <<>>
  /\ now = 0
  /\ nextTick = lb_frequency
  /\ startTime = 0
  /\ sentSinceStart = 0
  /\ skippedSinceStart = 0
  /\ sent = <<>>
  /\ lb_lastOp = "constructor"

\* LocationController::LocationController: every member has its default.
InitController ==
  /\ simConnections = 0
  /\ posConnections = 0
  /\ ub = "none"
  /\ argIn = <<>>
  /\ m_enabled = FALSE
  /\ m_simulated = FALSE
  /\ m_simulator = FALSE
  /\ m_positionSource = FALSE
  /\ m_compass = FALSE
  /\ simStarted = FALSE
  /\ posStarted = FALSE
  /\ compassStarted = FALSE
  /\ m_gpxFilePath = EmptyUrl
  /\ simGpxFile = ""
  /\ m_lastKnownHeading = 0
  /\ m_lastViewHeading = 0
  /\ sceneViewConnected = FALSE
  /\ cameraHeading = 0
  /\ fixIn = <<>>
  /\ posOut = <<>>
  /\ headingOut = <<>>
  /\ relOut = <<>>
  /\ notifyOut = <<>>
  /\ lastOp = "constructor"

\* A platform with a positioning source and an installation with the packaged
\* default log.
Init ==
  /\ InitController
  /\ InitBroadcast
  /\ platformSource = TRUE
  /\ defaultAvailable = TRUE

\* Any platform and any installation.
InitEnv ==
  /\ InitController
  /\ InitBroadcast
  /\ platformSource \in BOOLEAN
  /\ defaultAvailable \in BOOLEAN

\* ------------------------------------------------------------ operations
\* A process that has crashed runs no operation and no handler.
Alive == ub # "crashed"

\* No operation changes what the platform and the installation provide, and
\* none of the controller changes the publisher.
ControllerFrame == UNCHANGED envVars /\ UNCHANGED broadcastVars

\* v emitted once by each of n connected handlers
RECURSIVE Rep(_, _)
Rep(v, n) == IF n = 0 THEN <<>> ELSE Append(Rep(v, n - 1), v)

\* The members initPositionInfoSource and setGpxFilePath read and write, as a
\* record, so that the two functions can call each other as they do in the code.
\* nullUse: a member function was called through a null m_simulator.
Members ==
  [sim |-> m_simulator, pos |-> m_positionSource, compass |-> m_compass,
   path |-> m_gpxFilePath, file |-> simGpxFile, notes |-> <<>>,
   simConn |-> simConnections, posConn |-> posConnections,
   nullUse |-> FALSE]

RECURSIVE initPositionInfoSource(_, _)
RECURSIVE setGpxFilePathOn(_, _)

\* An initPositionInfoSource that never constructs the Live producer.
initPositionInfoSource_NoLive(s, simulated) ==
  IF simulated /\ ~s.sim
    THEN LET t == setGpxFilePathOn([s EXCEPT !.sim = TRUE], DefaultGpx)
         IN [t EXCEPT !.simConn = @ + 1]
    ELSE s

\* An initPositionInfoSource that constructs and connects a producer on every
\* call, whether or not one exists.
initPositionInfoSource_NoNullTest(s, simulated) ==
  IF simulated
    THEN [s EXCEPT !.sim = TRUE, !.simConn = @ + 1]
    ELSE [s EXCEPT !.pos = platformSource,
                   !.posConn = IF platformSource THEN @ + 1 ELSE @,
                   !.compass = TRUE]

\* LocationController::initPositionInfoSource(bool simulated).  A connect with
\* a null sender connects nothing.
initPositionInfoSource(s, simulated) ==
  IF simulated /\ ~s.sim
    THEN LET t == setGpxFilePathOn([s EXCEPT !.sim = TRUE], DefaultGpx)
         IN [t EXCEPT !.simConn = @ + 1]
    ELSE IF ~simulated /\ ~s.pos
      THEN [s EXCEPT !.pos = platformSource,
                     !.posConn = IF platformSource THEN @ + 1 ELSE @,
                     !.compass = TRUE]
      ELSE s

\* A setGpxFilePath that records the path without handing it to the player.
setGpxFilePathOn_NoSetGpxFile(s, gpxFilePath) ==
  IF s.path = gpxFilePath
    THEN s
    ELSE LET t == initPositionInfoSource(s, TRUE)
         IN [t EXCEPT !.path = gpxFilePath,
                      !.notes = Append(@, "gpxFilePathChanged")]

\* LocationController::setGpxFilePath(const QUrl& gpxFilePath)
setGpxFilePathOn(s, gpxFilePath) ==
  IF s.path = gpxFilePath
    THEN s
    ELSE LET t == initPositionInfoSource(s, TRUE)
         IN [t EXCEPT !.nullUse = @ \/ ~t.sim,
                      !.file = ToLocalFile(gpxFilePath),
                      !.path = gpxFilePath,
                      !.notes = Append(@, "gpxFilePathChanged")]

\* The members of record s become the next state's members.
Store(s) ==
  /\ m_simulator' = s.sim
  /\ m_positionSource' = s.pos
  /\ m_compass' = s.compass
  /\ m_gpxFilePath' = s.path
  /\ simGpxFile' = s.file
  /\ simConnections' = s.simConn
  /\ posConnections' = s.posConn

\* A call through a null pointer is undefined: the process crashes, or it
\* carries on as if the call had not been made.
UBOutcome(nullUse) ==
  IF nullUse THEN ub' \in {"crashed", "continued"} ELSE UNCHANGED ub

NoValueOut ==
  fixIn' = <<>> /\ posOut' = <<>> /\ headingOut' = <<>> /\ relOut' = <<>>

\* A setEnabled without the test for an unchanged flag.
setEnabled_NoEarlyReturn(enabled) ==
  /\ Alive
  /\ ControllerFrame
  /\ lastOp' = "setEnabled"
  /\ argIn' = <<enabled>>
  /\ NoValueOut
  /\ UNCHANGED <<m_simulated, m_lastKnownHeading, m_lastViewHeading,
                 sceneViewConnected, cameraHeading, ub>>
  /\ LET s == initPositionInfoSource(Members, m_simulated)
     IN /\ Store(s)
        /\ IF m_simulated
             THEN /\ simStarted' = enabled
                  /\ UNCHANGED <<posStarted, compassStarted>>
             ELSE /\ posStarted' = enabled
                  /\ compassStarted' = enabled
                  /\ UNCHANGED simStarted
        /\ m_enabled' = enabled
        /\ notifyOut' = Append(s.notes, "enabledChanged")

\* LocationController::setEnabled(bool enabled).  The location overlay whose
\* visibility it also sets belongs to the renderer and is not part of the model.
setEnabled(enabled) ==
  /\ Alive
  /\ ControllerFrame
  /\ lastOp' = "setEnabled"
  /\ argIn' = <<enabled>>
  /\ NoValueOut
  /\ UNCHANGED <<m_simulated, m_lastKnownHeading, m_lastViewHeading,
                 sceneViewConnected, cameraHeading>>
  /\ IF m_enabled = enabled
       THEN /\ notifyOut' = <<>>
            /\ UNCHANGED progVars
            /\ UNCHANGED wiringVars
       ELSE LET s == initPositionInfoSource(Members, m_simulated)
                nullUse == IF m_simulated THEN ~s.sim ELSE ~s.pos \/ ~s.compass
            IN /\ Store(s)
               /\ UBOutcome(nullUse)
               /\ IF nullUse /\ ub' = "crashed"
                    THEN /\ UNCHANGED <<simStarted, posStarted, compassStarted,
                                        m_enabled>>
                         /\ notifyOut' = s.notes
                    ELSE /\ IF m_simulated
                              THEN /\ simStarted' =
                                        IF s.sim THEN enabled ELSE simStarted
                                   /\ UNCHANGED <<posStarted, compassStarted>>
                              ELSE /\ posStarted' =
                                        IF s.pos THEN enabled ELSE posStarted
                                   /\ compassStarted' =
                                        IF ~s.compass THEN compassStarted
                                        ELSE IF s.pos THEN enabled
                                        ELSE enabled \/ compassStarted
                                   /\ UNCHANGED simStarted
                         /\ m_enabled' = enabled
                         /\ notifyOut' = Append(s.notes, "enabledChanged")

\* A setSimulated without the test for an unchanged mode.
setSimulated_NoEarlyReturn(simulated) ==
  /\ Alive
  /\ ControllerFrame
  /\ lastOp' = "setSimulated"
  /\ argIn' = <<simulated>>
  /\ NoValueOut
  /\ UNCHANGED <<m_enabled, simStarted, posStarted, compassStarted,
                 m_lastKnownHeading, m_lastViewHeading, sceneViewConnected,
                 cameraHeading, ub>>
  /\ LET s == IF simulated
                THEN initPositionInfoSource(Members, simulated)
                ELSE Members
     IN /\ Store(s)
        /\ m_simulated' = simulated
        /\ notifyOut' = Append(s.notes, "simulatedChanged")

\* LocationController::setSimulated(bool simulated)
setSimulated(simulated) ==
  /\ Alive
  /\ ControllerFrame
  /\ lastOp' = "setSimulated"
  /\ argIn' = <<simulated>>
  /\ NoValueOut
  /\ UNCHANGED <<m_enabled, simStarted, posStarted, compassStarted,
                 m_lastKnownHeading, m_lastViewHeading, sceneViewConnected,
                 cameraHeading>>
  /\ IF m_simulated = simulated
       THEN /\ notifyOut' = <<>>
            /\ UNCHANGED <<m_simulated, m_simulator, m_positionSource,
                           m_compass, m_gpxFilePath, simGpxFile>>
            /\ UNCHANGED wiringVars
       ELSE LET s == IF simulated
                       THEN initPositionInfoSource(Members, simulated)
                       ELSE Members
            IN /\ Store(s)
               /\ UBOutcome(s.nullUse)
               /\ m_simulated' = simulated
               /\ notifyOut' = Append(s.notes, "simulatedChanged")

\* LocationController::setGpxFilePath(const QUrl& gpxFilePath), as an operation
setGpxFilePath(gpxFilePath) ==
  /\ Alive
  /\ ControllerFrame
  /\ lastOp' = "setGpxFilePath"
  /\ argIn' = <<gpxFilePath>>
  /\ NoValueOut
  /\ UNCHANGED <<m_enabled, m_simulated, simStarted, posStarted,
                 compassStarted, m_lastKnownHeading, m_lastViewHeading,
                 sceneViewConnected, cameraHeading>>
  /\ LET s == setGpxFilePathOn(Members, gpxFilePath)
     IN /\ Store(s)
        /\ UBOutcome(s.nullUse)
        /\ notifyOut' = s.notes

\* LocationController::setRelativeHeadingSceneView: connects the handler of
\* the scene view's viewpointChanged.  (A second connection of the same view
\* runs the handler twice; its second run finds the baseline equal to the
\* camera heading and returns.)
setRelativeHeadingSceneView ==
  /\ Alive
  /\ ControllerFrame
  /\ lastOp' = "setRelativeHeadingSceneView"
  /\ argIn' = <<>>
  /\ NoValueOut
  /\ notifyOut' = <<>>
  /\ sceneViewConnected' = TRUE
  /\ UNCHANGED progVars
  /\ UNCHANGED wiringVars
  /\ UNCHANGED cameraHeading

\* A threshold test that drops only a viewpoint change of zero.
BelowThreshold_ZeroOnly(lastViewHeading, sceneViewHeading) ==
  lastViewHeading = sceneViewHeading

\* std::abs(m_lastViewHeading - sceneViewHeading) < 0.1
BelowThreshold(lastViewHeading, sceneViewHeading) ==
  Abs(lastViewHeading - sceneViewHeading) < Threshold

\* A handler that republishes whether or not updates are enabled.
EmitsOnView_Always(enabled) == TRUE

\* if (!m_enabled): the viewpointChanged handler republishes the relative
\* heading only when no updates are being made.
EmitsOnView(enabled) == ~enabled

\* The value the viewpointChanged handler emits:
\* m_lastKnownHeading + m_lastViewHeading
RelativeHeadingOnView(lastKnownHeading, lastViewHeading) ==
  lastKnownHeading + lastViewHeading

\* The value the positionUpdateAvailable handler emits:
\* heading - m_lastViewHeading
RelativeHeadingOnUpdate(heading, lastViewHeading) ==
  heading - lastViewHeading

\* The handler of SceneQuickView::viewpointChanged, run when the camera of the
\* connected scene view has moved to heading h.
viewpointChanged(h) ==
  /\ Alive
  /\ ControllerFrame
  /\ sceneViewConnected
  /\ lastOp' = "viewpointChanged"
  /\ cameraHeading' = h
  /\ argIn' = <<>>
  /\ fixIn' = <<>>
  /\ posOut' = <<>>
  /\ headingOut' = <<>>
  /\ notifyOut' = <<>>
  /\ UNCHANGED <<m_enabled, m_simulated, m_simulator, m_positionSource,
                 m_compass, simStarted, posStarted, compassStarted,
                 m_gpxFilePath, simGpxFile, m_lastKnownHeading,
                 sceneViewConnected>>
  /\ UNCHANGED wiringVars
  /\ IF BelowThreshold(m_lastViewHeading, h)
       THEN /\ relOut' = <<>>
            /\ UNCHANGED m_lastViewHeading
       ELSE /\ m_lastViewHeading' = h
            /\ relOut' = IF EmitsOnView(m_enabled)
                           THEN <<RelativeHeadingOnView(m_lastKnownHeading, h)>>
                           ELSE <<>>

\* The track-log player has a log to replay: a file was handed to it, and the
\* file can be read.
LogLoaded ==
  /\ simGpxFile # ""
  /\ simGpxFile = ToLocalFile(DefaultGpx) => defaultAvailable

\* The handler of GPXLocationSimulator::positionUpdateAvailable, run once for
\* each connection.  The player emits only while started, and replays only a
\* log it has loaded.
positionUpdateAvailable(pos, heading) ==
  /\ Alive
  /\ ControllerFrame
  /\ m_simulator
  /\ simStarted
  /\ LogLoaded
  /\ lastOp' = "positionUpdateAvailable"
  /\ argIn' = <<>>
  /\ fixIn' = <<>>
  /\ m_lastKnownHeading' = heading
  /\ posOut' = Rep(pos, simConnections)
  /\ headingOut' = Rep(heading, simConnections)
  /\ relOut' =
       Rep(RelativeHeadingOnUpdate(heading, m_lastViewHeading), simConnections)
  /\ notifyOut' = <<>>
  /\ UNCHANGED <<m_enabled, m_simulated, m_simulator, m_positionSource,
                 m_compass, simStarted, posStarted, compassStarted,
                 m_gpxFilePath, simGpxFile, m_lastViewHeading,
                 sceneViewConnected, cameraHeading>>
  /\ UNCHANGED wiringVars

\* A switch that carries the altitude whatever the coordinate type is.
NewPosition_AlwaysAltitude(pos) ==
  Point3D(pos.longitude, pos.latitude, pos.altitude)

\* The switch of the positionUpdated handler: the Point built of a coordinate.
NewPosition(pos) ==
  CASE pos.type = "Coordinate2D" -> Point2D(pos.longitude, pos.latitude)
    [] pos.type = "Coordinate3D" ->
         Point3D(pos.longitude, pos.latitude, pos.altitude)

\* The fixes the positionUpdated handler does not return early on.
FixAccepted(update) ==
  /\ update.isValid
  /\ update.coordIsValid
  /\ update.type \in {"Coordinate2D", "Coordinate3D"}

\* The handler of QGeoPositionInfoSource::positionUpdated, run once for each
\* connection.
positionUpdated(update) ==
  /\ Alive
  /\ ControllerFrame
  /\ m_positionSource
  /\ posStarted
  /\ lastOp' = "positionUpdated"
  /\ argIn' = <<>>
  /\ fixIn' = <<update>>
  /\ headingOut' = <<>>
  /\ relOut' = <<>>
  /\ notifyOut' = <<>>
  /\ posOut' = IF FixAccepted(update)
                 THEN Rep(NewPosition(update), posConnections)
                 ELSE <<>>
  /\ UNCHANGED progVars
  /\ UNCHANGED wiringVars
  /\ UNCHANGED <<sceneViewConnected, cameraHeading>>

\* The handler of QCompass::readingChanged.
readingChanged(reading) ==
  /\ Alive
  /\ ControllerFrame
  /\ m_compass
  /\ compassStarted
  /\ lastOp' = "readingChanged"
  /\ argIn' = <<>>
  /\ fixIn' = <<>>
  /\ posOut' = <<>>
  /\ relOut' = <<>>
  /\ notifyOut' = <<>>
  /\ headingOut' = IF reading = NoReading THEN <<>> ELSE <<reading>>
  /\ UNCHANGED progVars
  /\ UNCHANGED wiringVars
  /\ UNCHANGED <<sceneViewConnected, cameraHeading>>

Next ==
  \/ \E enabled \in BOOLEAN : setEnabled(enabled)
  \/ \E simulated \in BOOLEAN : setSimulated(simulated)
  \/ \E gpxFilePath \in Urls : setGpxFilePath(gpxFilePath)
  \/ setRelativeHeadingSceneView
  \/ \E h \in Headings : viewpointChanged(h)
  \/ \E pos \in SimPoints, heading \in Headings :
       positionUpdateAvailable(pos, heading)
  \/ \E update \in Fixes : positionUpdated(update)
  \/ \E reading \in Readings : readingChanged(reading)

Spec == Init /\ [][Next]_vars

\* The controller on any platform and installation.
SpecEnv == InitEnv /\ [][Next]_vars

\* ------------------------------------------------------ LocationBroadcast
\* The publisher of Shared/LocationBroadcast.h.  Its operations are the
\* setters of the class declaration; their bodies follow section 4.2 of the
\* specification.

\* No operation of the publisher changes the controller.
BroadcastFrame == UNCHANGED controllerVars

\* m_timer->start(): the timer fires first one interval from now.
TimerStarted(frequency) ==
  /\ lb_timerActive' = TRUE
  /\ nextTick' = now + frequency
  /\ startTime' = now
  /\ sentSinceStart' = 0
  /\ skippedSinceStart' = 0

\* m_timer->stop()
TimerStopped ==
  /\ lb_timerActive' = FALSE
  /\ UNCHANGED <<nextTick, startTime, sentSinceStart, skippedSinceStart>>

TimerUnchanged ==
  UNCHANGED <<lb_timerActive, nextTick, startTime, sentSinceStart,
              skippedSinceStart>>

LocationBroadcast_setEnabled_KeepsDeadline(enabled) ==
  /\ BroadcastFrame
  /\ lb_lastOp' = "setEnabled"
  /\ sent' = <<>>
  /\ lb_enabled' = enabled
  /\ IF enabled = lb_enabled
       THEN TimerUnchanged
       ELSE IF enabled
              THEN /\ lb_timerActive' = TRUE
                   /\ UNCHANGED <<nextTick, startTime, sentSinceStart,
                                   skippedSinceStart>>
              ELSE TimerStopped
  /\ UNCHANGED <<lb_location, lb_useCurrentLocation, lb_messageType,
                 lb_udpPort, lb_frequency, sourcePosition, now>>

\* void LocationBroadcast::setEnabled(bool enabled): Disabled -> Enabled
\* starts the interval timer, Enabled -> Disabled stops it.
LocationBroadcast_setEnabled(enabled) ==
  /\ BroadcastFrame
  /\ lb_lastOp' = "setEnabled"
  /\ sent' = <<>>
  /\ lb_enabled' = enabled
  /\ IF enabled = lb_enabled
       THEN TimerUnchanged
       ELSE IF enabled THEN TimerStarted(lb_frequency) ELSE TimerStopped
  /\ UNCHANGED <<lb_location, lb_useCurrentLocation, lb_messageType,
                 lb_udpPort, lb_frequency, sourcePosition, now>>

\* void LocationBroadcast::setLocation(const Point& location)
setLocation(location) ==
  /\ BroadcastFrame
  /\ lb_lastOp' = "setLocation"
  /\ sent' = <<>>
  /\ lb_location' = <<location>>
  /\ TimerUnchanged
  /\ UNCHANGED <<lb_enabled, lb_useCurrentLocation, lb_messageType,
                 lb_udpPort, lb_frequency, sourcePosition, now>>

\* void LocationBroadcast::setUseCurrentLocation(bool useCurrentLocation)
setUseCurrentLocation(useCurrentLocation) ==
  /\ BroadcastFrame
  /\ lb_lastOp' = "setUseCurrentLocation"
  /\ sent' = <<>>
  /\ lb_useCurrentLocation' = useCurrentLocation
  /\ TimerUnchanged
  /\ UNCHANGED <<lb_enabled, lb_location, lb_messageType, lb_udpPort,
                 lb_frequency, sourcePosition, now>>

\* void LocationBroadcast::setMessageType(const QString& messageType)
setMessageType(messageType) ==
  /\ BroadcastFrame
  /\ lb_lastOp' = "setMessageType"
  /\ sent' = <<>>
  /\ lb_messageType' = messageType
  /\ TimerUnchanged
  /\ UNCHANGED <<lb_enabled, lb_location, lb_useCurrentLocation, lb_udpPort,
                 lb_frequency, sourcePosition, now>>

\* void LocationBroadcast::setUdpPort(int port)
setUdpPort(port) ==
  /\ BroadcastFrame
  /\ lb_lastOp' = "setUdpPort"
  /\ sent' = <<>>
  /\ lb_udpPort' = port
  /\ TimerUnchanged
  /\ UNCHANGED <<lb_enabled, lb_location, lb_useCurrentLocation,
                 lb_messageType, lb_frequency, sourcePosition,
                 now>>

\* void LocationBroadcast::setFrequency(int frequency): the new interval
\* holds from the next scheduled tick; a running timer is restarted with it.
setFrequency(frequency) ==
  /\ BroadcastFrame
  /\ lb_lastOp' = "setFrequency"
  /\ sent' = <<>>
  /\ lb_frequency' = frequency
  /\ IF lb_timerActive /\ frequency # lb_frequency
       THEN TimerStarted(frequency)
       ELSE TimerUnchanged
  /\ UNCHANGED <<lb_enabled, lb_location, lb_useCurrentLocation,
                 lb_messageType, lb_udpPort, sourcePosition, now>>

\* The handler behind m_locationChangedConn: the source reports a position.
locationChanged(position) ==
  /\ BroadcastFrame
  /\ lb_lastOp' = "locationChanged"
  /\ sent' = <<>>
  /\ sourcePosition' = <<position>>
  /\ TimerUnchanged
  /\ UNCHANGED <<lb_enabled, lb_location, lb_useCurrentLocation,
                 lb_messageType, lb_udpPort, lb_frequency, now>>

PositionToSend_AlwaysSource ==
  sourcePosition

\* The position a tick reads: the source's last known one when following the
\* source, the manual one otherwise; <<>> when there is none.
PositionToSend ==
  IF lb_useCurrentLocation THEN sourcePosition ELSE lb_location

\* The message a tick builds from a position.
BuildMessage(position) ==
  [type |-> lb_messageType, position |-> position, port |-> lb_udpPort]

broadcastLocation_Unchecked ==
  /\ now = nextTick
  /\ BroadcastFrame
  /\ lb_lastOp' = "broadcastLocation"
  /\ nextTick' = now + lb_frequency
  /\ IF PositionToSend = <<>>
       THEN /\ sent' = <<>>
            /\ skippedSinceStart' = skippedSinceStart + 1
            /\ UNCHANGED sentSinceStart
       ELSE /\ sent' = <<BuildMessage(PositionToSend[1])>>
            /\ sentSinceStart' = sentSinceStart + 1
            /\ UNCHANGED skippedSinceStart
  /\ UNCHANGED <<lb_enabled, lb_location, lb_useCurrentLocation,
                 lb_messageType, lb_udpPort, lb_frequency, lb_timerActive,
                 sourcePosition, now, startTime>>

\* void LocationBroadcast::broadcastLocation(), the handler of the timer's
\* tick: nothing while disabled, nothing without a position, else one message
\* built and handed to the transport.
broadcastLocation ==
  /\ lb_timerActive
  /\ now = nextTick
  /\ BroadcastFrame
  /\ lb_lastOp' = "broadcastLocation"
  /\ nextTick' = now + lb_frequency
  /\ IF ~lb_enabled \/ PositionToSend = <<>>
       THEN /\ sent' = <<>>
            /\ skippedSinceStart' = skippedSinceStart + 1
            /\ UNCHANGED sentSinceStart
       ELSE /\ sent' = <<BuildMessage(PositionToSend[1])>>
            /\ sentSinceStart' = sentSinceStart + 1
            /\ UNCHANGED skippedSinceStart
  /\ UNCHANGED <<lb_enabled, lb_location, lb_useCurrentLocation,
                 lb_messageType, lb_udpPort, lb_frequency, lb_timerActive,
                 sourcePosition, now, startTime>>

\* A second passes; a tick that is due is handled first.
timePasses ==
  /\ now < MaxTime * Second
  /\ lb_timerActive => now < nextTick
  /\ BroadcastFrame
  /\ lb_lastOp' = "timePasses"
  /\ sent' = <<>>
  /\ now' = now + Second
  /\ TimerUnchanged
  /\ UNCHANGED <<lb_enabled, lb_location, lb_useCurrentLocation,
                 lb_messageType, lb_udpPort, lb_frequency, sourcePosition>>

NextBroadcast ==
  \/ \E enabled \in BOOLEAN : LocationBroadcast_setEnabled(enabled)
  \/ \E location \in BroadcastPoints : setLocation(location)
  \/ \E use \in BOOLEAN : setUseCurrentLocation(use)
  \/ \E messageType \in MessageTypes : setMessageType(messageType)
  \/ \E port \in UdpPorts : setUdpPort(port)
  \/ \E frequency \in Frequencies : setFrequency(frequency)
  \/ \E position \in BroadcastPoints : locationChanged(position)
  \/ broadcastLocation
  \/ timePasses

SpecBroadcast == Init /\ [][NextBroadcast]_vars

\* ================================================================ claims
LiveStarted == posStarted \/ compassStarted

\* C1: in every reachable state at most one producer is started: the Live
\* producer (position source, compass) and the Simulated producer are never
\* started at the same time.
C1_AtMostOneProducerStarted == ~(simStarted /\ LiveStarted)

\* C2: after setSimulated has switched the mode, the producer of the old mode
\* causes no positionChanged, headingChanged or relativeHeadingChanged: a
\* notification caused by a producer is emitted only in that producer's mode.
C2_NoUpdateFromInactiveProducer ==
  /\ (/\ lastOp \in {"positionUpdated", "readingChanged"}
      /\ (posOut # <<>> \/ headingOut # <<>>)) => ~m_simulated
  /\ lastOp = "positionUpdateAvailable" => m_simulated

\* C3: whenever enabled() is true, the producer of the current mode is started.
C3_EnabledProducerStarted ==
  m_enabled =>
    IF m_simulated THEN simStarted ELSE posStarted /\ compassStarted

\* C4: after setEnabled(false), until the next setEnabled(true), no producer is
\* started (m_enabled is false exactly in those states and initially).
C4_DisabledNoProducerStarted ==
  ~m_enabled => ~simStarted /\ ~posStarted /\ ~compassStarted

\* C5: every step that emits headingChanged(h), whether for a compass reading
\* or a simulated update, sets m_lastKnownHeading to h and emits
\* relativeHeadingChanged.
C5_HeadingTrackedOnEveryUpdate ==
  [][headingOut' # <<>> =>
       /\ m_lastKnownHeading' = headingOut'[1]
       /\ relOut' # <<>>]_vars

\* C6: every value emitted by relativeHeadingChanged equals
\* (m_lastKnownHeading - m_lastViewHeading) mod 360 at the time of emission,
\* at both emission sites.
C6_RelativeHeadingIsDifferenceMod360 ==
  relOut # <<>> =>
    relOut[1] = (m_lastKnownHeading - m_lastViewHeading) % FullCircle

\* C7: every value emitted by relativeHeadingChanged lies in [0, 360).
C7_RelativeHeadingInRange ==
  relOut # <<>> => relOut[1] >= 0 /\ relOut[1] < FullCircle

\* C8 as stated: a viewpoint change of more than 0.1 degree from the baseline
\* updates the baseline and emits relativeHeadingChanged, enabled or not.
C8_ViewerChangeAlwaysRepublished ==
  [][(/\ lastOp' = "viewpointChanged"
      /\ Abs(cameraHeading' - m_lastViewHeading) > Threshold)
       => /\ m_lastViewHeading' = cameraHeading'
          /\ relOut' # <<>>]_vars

\* C8 as amended: a viewpoint change of more than 0.1 degree from the baseline
\* updates the baseline in every state, and emits relativeHeadingChanged
\* exactly when the source is disabled.
C8_ViewerChangeRepublishedWhenDisabled ==
  [][(/\ lastOp' = "viewpointChanged"
      /\ Abs(cameraHeading' - m_lastViewHeading) > Threshold)
       => /\ m_lastViewHeading' = cameraHeading'
          /\ (relOut' # <<>> <=> ~m_enabled)]_vars

\* An accepted viewpoint change while enabled: the baseline has followed the
\* camera and nothing was emitted.
C8_Witness ==
  /\ lastOp = "viewpointChanged"
  /\ m_enabled
  /\ cameraHeading = FullCircle - 1
  /\ m_lastViewHeading = cameraHeading
  /\ relOut = <<>>

\* C9 as stated: a viewpoint change of 0.1 degree or less from the baseline
\* emits nothing and leaves the baseline unchanged.
C9_AtMostThresholdDropped ==
  [][(/\ lastOp' = "viewpointChanged"
      /\ Abs(cameraHeading' - m_lastViewHeading) <= Threshold)
       => /\ relOut' = <<>>
          /\ m_lastViewHeading' = m_lastViewHeading]_vars

\* C9 as amended: a viewpoint change of less than 0.1 degree from the baseline
\* emits nothing and leaves the baseline unchanged.
C9_BelowThresholdDropped ==
  [][(/\ lastOp' = "viewpointChanged"
      /\ Abs(cameraHeading' - m_lastViewHeading) < Threshold)
       => /\ relOut' = <<>>
          /\ m_lastViewHeading' = m_lastViewHeading]_vars

\* A viewpoint change below the threshold that is not zero was dropped: the
\* camera has moved, the baseline has not, nothing was emitted.
C9_Witness ==
  /\ lastOp = "viewpointChanged"
  /\ cameraHeading # m_lastViewHeading
  /\ Abs(cameraHeading - m_lastViewHeading) < Threshold
  /\ relOut = <<>>

\* C10: the positionUpdated handler emits, for a valid fix with a valid 2-D or
\* 3-D coordinate, exactly that coordinate (altitude only for 3-D), so the last
\* emitted position of a sequence of fixes is its most recent valid fix; any
\* other fix emits nothing; and no fix changes the controller's state.
C10_LivePositionIsLatestValidFix ==
  [][lastOp' = "positionUpdated" =>
       /\ UNCHANGED progVars
       /\ headingOut' = <<>>
       /\ relOut' = <<>>
       /\ posOut' =
            IF /\ fixIn'[1].isValid
               /\ fixIn'[1].coordIsValid
               /\ fixIn'[1].type # "InvalidCoordinate"
              THEN <<[x |-> fixIn'[1].longitude, y |-> fixIn'[1].latitude,
                      hasZ |-> fixIn'[1].type = "Coordinate3D",
                      z |-> IF fixIn'[1].type = "Coordinate3D"
                              THEN fixIn'[1].altitude ELSE 0]>>
              ELSE <<>>]_vars

\* A valid 2-D fix was delivered in Live mode and emitted without an altitude.
C10_Witness ==
  /\ lastOp = "positionUpdated"
  /\ ~m_simulated
  /\ fixIn[1].isValid /\ fixIn[1].coordIsValid
  /\ fixIn[1].type = "Coordinate2D"
  /\ posOut = <<Point2D(MaxCoord, MaxCoord + 1)>>

\* C11: whenever the Simulated producer exists, the log handed to it is the
\* local file of gpxFilePath(); gpxFilePath() is the argument of the last
\* setGpxFilePath, and changes otherwise only when the simulator is constructed
\* while no path is set, to the packaged default.
C11_LoadedLogIsGpxFilePath ==
  [][/\ m_simulator' => simGpxFile' = ToLocalFile(m_gpxFilePath')
     /\ lastOp' = "setGpxFilePath" => m_gpxFilePath' = argIn'[1]
     /\ (lastOp' # "setGpxFilePath" /\ m_gpxFilePath' # m_gpxFilePath)
          => /\ ~m_simulator
             /\ m_simulator'
             /\ m_gpxFilePath = EmptyUrl
             /\ m_gpxFilePath' = DefaultGpx]_vars

\* setGpxFilePath was called with a user log while Simulated mode is inactive:
\* the simulator exists, is not started, and has the user log.
C11_Witness ==
  /\ lastOp = "setGpxFilePath"
  /\ argIn = <<UserGpx>>
  /\ ~m_simulated
  /\ m_simulator
  /\ ~simStarted
  /\ m_gpxFilePath = UserGpx
  /\ simGpxFile = ToLocalFile(UserGpx)

\* C12: setEnabled(e) with enabled() = e and setSimulated(m) with
\* simulated() = m change no state, construct, start and stop nothing and emit
\* no signal; after either operation the flag equals the argument, so a second
\* call with the same argument is such a call.
C12_SameArgumentIsNoOp ==
  [][/\ lastOp' = "setEnabled" =>
          /\ m_enabled' = argIn'[1]
          /\ m_enabled = argIn'[1] =>
               /\ UNCHANGED progVars
               /\ UNCHANGED wiringVars
               /\ notifyOut' = <<>>
     /\ lastOp' = "setSimulated" =>
          /\ m_simulated' = argIn'[1]
          /\ m_simulated = argIn'[1] =>
               /\ UNCHANGED progVars
               /\ UNCHANGED wiringVars
               /\ notifyOut' = <<>>]_vars

\* setSimulated(true) was called in Simulated mode and emitted nothing.
C12_Witness ==
  /\ lastOp = "setSimulated"
  /\ argIn = <<TRUE>>
  /\ m_simulated
  /\ notifyOut = <<>>

\* C13: where the packaged default log is missing and it is the log the
\* simulator was given, entering Simulated mode does not succeed (simulated()
\* and enabled() are not both true) and the simulator emits no update.
C13_MissingLogFailsSwitch ==
  (/\ ub = "none"
   /\ ~defaultAvailable
   /\ m_simulator
   /\ simGpxFile = ToLocalFile(DefaultGpx))
    => /\ ~(m_simulated /\ m_enabled)
       /\ lastOp # "positionUpdateAvailable"

\* C14: on a platform without a positioning source no null pointer is used,
\* and after setEnabled the enabled flag equals the request.
C14_NoSourceNoNullUse ==
  ~platformSource =>
    /\ ub = "none"
    /\ lastOp = "setEnabled" => m_enabled = argIn[1]

\* C15: a producer, once constructed, stays; each producer is constructed and
\* its handler connected at most once; the simulator is constructed only by
\* setSimulated, setGpxFilePath or setEnabled, the Live producer only by
\* setEnabled in Live mode; one producer update emits one positionChanged at
\* most.
C15_ProducersConstructedOnce ==
  [][/\ m_simulator => m_simulator'
     /\ m_positionSource => m_positionSource'
     /\ m_compass => m_compass'
     /\ simConnections' = IF m_simulator' THEN 1 ELSE 0
     /\ posConnections' = IF m_positionSource' THEN 1 ELSE 0
     /\ (m_simulator' /\ ~m_simulator)
          => lastOp' \in {"setSimulated", "setGpxFilePath", "setEnabled"}
     /\ (m_positionSource' /\ ~m_positionSource)
          => (lastOp' = "setEnabled" /\ ~m_simulated)
     /\ lastOp' \in {"positionUpdated", "positionUpdateAvailable"}
          => Len(posOut') <= 1]_vars

\* Both producers exist, and a Live fix was emitted exactly once.
C15_Witness ==
  /\ m_simulator
  /\ m_positionSource
  /\ m_compass
  /\ lastOp = "positionUpdated"
  /\ Len(posOut) = 1

\* C20: where construction succeeds, no operation calls a member function
\* through a null m_simulator, m_positionSource or m_compass.
C20_NoNullPointerUse == ub = "none"

\* setEnabled(true) has started the Live producer after the mode was switched to
\* Simulated and back (the simulator exists, the mode is Live).
C20_Witness ==
  /\ lastOp = "setEnabled"
  /\ argIn = <<TRUE>>
  /\ m_simulator
  /\ ~m_simulated
  /\ m_positionSource
  /\ posStarted
  /\ compassStarted
  /\ ub = "none"


\* C16 (as stated): a newly constructed publisher is Disabled: isEnabled()
\* is false and its timer is not running.
C16_NewPublisherDisabled ==
  lb_lastOp = "constructor" => ~lb_enabled /\ ~lb_timerActive

\* C17: a message is handed to the transport only by a tick handled while
\* the publisher is enabled; no other operation, and nothing done while it
\* is disabled, sends.
C17_SendsOnlyOnTickWhileEnabled ==
  [][sent' # <<>> =>
       lb_enabled /\ lb_enabled' /\ lb_lastOp' = "broadcastLocation"]_vars

\* The publisher is disabled after it has sent, its timer's deadline has
\* passed, and it was reconfigured last: nothing was sent.
C17_Witness ==
  /\ ~lb_enabled
  /\ sentSinceStart > 0
  /\ now > nextTick
  /\ lb_lastOp = "setLocation"
  /\ sent = <<>>

\* C18: a message sent on a tick carries the manual location when
\* useCurrentLocation is false, whatever the source reported and the source's
\* latest position when it is true; a report of the source leaves the manual
\* location alone.
C18_MessageCarriesChosenPosition ==
  [][/\ sent' # <<>> =>
          /\ Len(sent') = 1
          /\ lb_useCurrentLocation =>
                sourcePosition # <<>> /\ sent'[1].position = sourcePosition[1]
          /\ ~lb_useCurrentLocation =>
                lb_location # <<>> /\ sent'[1].position = lb_location[1]
     /\ lb_lastOp' = "locationChanged" => lb_location' = lb_location]_vars

\* A tick sent the manual location while the source's last report differed.
C18_Witness ==
  /\ lb_lastOp = "broadcastLocation"
  /\ ~lb_useCurrentLocation
  /\ sent # <<>>
  /\ lb_location # <<>>
  /\ sourcePosition # <<>>
  /\ sourcePosition # lb_location
  /\ sent[1].position = lb_location[1]

\* C19: while the timer runs with interval f, one tick is handled per elapsed
\* f since the timer started, and a tick of the enabled publisher that has a
\* position sends exactly one message; no tick is handled while disabled; on
\* enabling, the first tick is one full interval away and nothing is sent.
C19_OneMessagePerInterval ==
  [][/\ lb_timerActive' =>
          /\ (sentSinceStart' + skippedSinceStart') * lb_frequency'
               = nextTick' - lb_frequency' - startTime'
          /\ nextTick' - lb_frequency' <= now'
          /\ now' <= nextTick'
     /\ (lb_lastOp' = "broadcastLocation" /\ lb_enabled
           /\ PositionToSend # <<>>) =>
          /\ Len(sent') = 1
          /\ sentSinceStart' = sentSinceStart + 1
          /\ skippedSinceStart' = skippedSinceStart
     /\ ~lb_enabled' => lb_lastOp' # "broadcastLocation" /\ ~lb_timerActive'
     /\ (~lb_enabled /\ lb_enabled') =>
          /\ sent' = <<>>
          /\ nextTick' = now' + lb_frequency'
          /\ sentSinceStart' = 0]_vars

\* Three seconds after the timer started with an interval of one second, the
\* third tick has sent the third message.
C19_Witness ==
  /\ lb_enabled
  /\ lb_frequency = Second
  /\ now - startTime = 3 * Second
  /\ sentSinceStart = 3
  /\ skippedSinceStart = 0
  /\ lb_lastOp = "broadcastLocation"
  /\ sent # <<>>

====
